---- MODULE Spec2Model ----
(***************************************************************************)
(* Model of the XMTP channel plugin: the SeenTracker of xmtp-client.ts,    *)
(* the text-event handler of startXmtpClient, and the gateway / outbound   *)
(* operations of channel.ts around the activeClients registry.             *)
(***************************************************************************)
EXTENDS Integers, Sequences, FiniteSets, Bags, TLC

\* ------------------------------------------------------------------ bounds
\* Largest value the clock (Date.now()) takes in the model.
MaxNow == 3
\* Number of direct calls made on the stand-alone tracker (SpecTracker).
MaxOps == 5
\* Number of startAccount calls made by the host.
MaxStarts == 2
\* Number of text events the transport delivers.
MaxEvents == 1
\* Number of text events delivered when one client's dedup is followed over
\* time (SpecDedup).
MaxDeliveries == 4
\* Number of text events delivered when messages are followed with their
\* reaction timers (SpecMessage).
MaxMessages == 2
\* Number of reply fragments per message when the replies are followed
\* (SpecReply).
MaxReplyFrags == 2
\* Number of text events delivered when accounts are restarted (SpecRestart).
MaxRestartEvents == 2
MaxStartEvents == 2
\* Number of outbound sendText calls made by the host.
MaxSends == 1
\* Number of reply fragments the dispatcher hands to deliver per message.
MaxFrags == 1

\* ------------------------------------------------- program constants (scaled)
\* SeenTracker.maxSize (10000 in the source, a small capacity here).
maxSize == 2
\* SeenTracker.ttlMs (one hour in the source, one clock unit here).
ttlMs == 1

\* Length of a private key accepted as configured (66 in the source: "0x"
\* and 64 further characters; "0x" and 2 further characters here).
keyLength == 4

\* ------------------------------------------------------------------ values
\* Message ids: any strings, the empty string included.
MsgIds == {"", "m1", "m2"}

\* Map.get of a missing key (undefined); also the falsy timestamp.
Undefined == 0

\* Account ids; "default" is DEFAULT_ACCOUNT_ID.
DEFAULT_ACCOUNT_ID == "default"
AccountIds == {"default", "other"}

\* One startAccount call each, and the client it creates.
Clients == 1..MaxStarts
\* activeClients.get of an account without entry.
NoClient == 0

\* Strings that are normalized are sequences of one-character strings.
Whitespace == {" "}
LowerChar(ch) ==
  CASE ch = "A" -> "a"
    [] ch = "B" -> "b"
    [] ch = "X" -> "x"
    [] OTHER -> ch

toLowerCase(s) == [i \in 1..Len(s) |-> LowerChar(s[i])]

RECURSIVE trimStart(_)
trimStart(s) ==
  IF Len(s) > 0 /\ s[1] \in Whitespace THEN trimStart(Tail(s)) ELSE s

RECURSIVE trimEnd(_)
trimEnd(s) ==
  IF Len(s) > 0 /\ s[Len(s)] \in Whitespace
  THEN trimEnd(SubSeq(s, 1, Len(s) - 1)) ELSE s

trim(s) == trimEnd(trimStart(s))

\* normalizeAddress of types.ts.
normalizeAddress(address) == trim(toLowerCase(address))

\* account.address before a start (undefined).
NoAddress == << >>
\* The address derived from an account's private key.
AddressOf(a) ==
  IF a = "default" THEN <<"0", "x", "D">> ELSE <<"0", "x", "E">>

\* Senders of inbound messages, as getSenderAddress returns them.
Sender1111 == <<"0", "x", "A">>
Sender2222 == <<"0", "x", "B">>
\* A message id identifies one message, so it fixes the sender; "m2" is a
\* message the default account wrote itself.
SenderOf(id) ==
  CASE id = "" -> Sender1111
    [] id = "m1" -> Sender2222
    [] OTHER -> AddressOf("default")

\* channels.xmtp.dmPolicy of the modelled configuration.
DmPolicyCfg == "allowlist"
\* channels.xmtp.allowFrom of the modelled configuration.
AllowFromCfg == << <<" ", "0", "X", "a">> >>
\* Targets the host passes to sendText.
SendTargets == { <<" ", "0", "x", "A", " ">>, <<"0", "x", "b">> }

\* ------------------------------------------------------- SeenTracker (pure)
\* The Map<string, number> is a sequence of [id, ts] in insertion order.
EmptyMap == << >>

MapKeys(seen) == {seen[i].id : i \in 1..Len(seen)}

\* Map.get: the timestamp stored for id, undefined when absent.
MapGet(seen, id) ==
  IF \E i \in 1..Len(seen) : seen[i].id = id
  THEN (CHOOSE e \in {seen[i] : i \in 1..Len(seen)} : e.id = id).ts
  ELSE Undefined

\* Map.delete: removes the entry, the others keep their order.
MapDelete(seen, id) == SelectSeq(seen, LAMBDA e : e.id # id)

\* Map.set: an existing key keeps its position, a new key goes last.
MapSet(seen, id, ts) ==
  IF \E i \in 1..Len(seen) : seen[i].id = id
  THEN [i \in 1..Len(seen) |->
          IF seen[i].id = id THEN [id |-> id, ts |-> ts] ELSE seen[i]]
  ELSE Append(seen, [id |-> id, ts |-> ts])

\* JavaScript truthiness of a string key / a numeric timestamp.
TruthyStr(s) == s # ""
TruthyNum(n) == n # 0

\* hasSeen with the window test off by one (>= for >).
HasSeenResultOffByOne(seen, id, t) ==
  LET ts == MapGet(seen, id) IN
  IF ~TruthyNum(ts) THEN FALSE
  ELSE IF t - ts >= ttlMs THEN FALSE
  ELSE TRUE

\* hasSeen, its return value.
HasSeenResult(seen, id, t) ==
  LET ts == MapGet(seen, id) IN
  IF ~TruthyNum(ts) THEN FALSE
  ELSE IF t - ts > ttlMs THEN FALSE
  ELSE TRUE

\* hasSeen, the map it leaves (an expired entry is deleted).
HasSeenStore(seen, id, t) ==
  LET ts == MapGet(seen, id) IN
  IF ~TruthyNum(ts) THEN seen
  ELSE IF t - ts > ttlMs THEN MapDelete(seen, id)
  ELSE seen

\* The first loop of markSeen: every expired entry is deleted.
PruneExpired(seen, t) == SelectSeq(seen, LAMBDA e : ~(t - e.ts > ttlMs))

\* The second step of markSeen: the first key in insertion order is deleted,
\* if that key is truthy.
DeleteOldest(seen) ==
  IF Len(seen) >= maxSize
  THEN LET oldest == IF Len(seen) > 0 THEN seen[1].id ELSE "" IN
       IF TruthyStr(oldest) THEN MapDelete(seen, oldest) ELSE seen
  ELSE seen

\* The map before the final set of markSeen.
MarkSeenPruned(seen, t) ==
  IF Len(seen) >= maxSize THEN DeleteOldest(PruneExpired(seen, t)) ELSE seen

\* markSeen, the map it leaves.
MarkSeen(seen, id, t) == MapSet(MarkSeenPruned(seen, t), id, t)

\* Ids that markSeen(id) removes although they have not expired.
EvictedForCapacity(seen, id, t) ==
  {k \in MapKeys(seen) :
     /\ k \notin MapKeys(MarkSeen(seen, id, t))
     /\ ~(t - MapGet(seen, k) > ttlMs)}

\* ------------------------------------------------------------------ state
VARIABLES
  now,            \* Date.now()
  tracker,        \* a SeenTracker driven directly: its seen map
  tMarkedAt,      \* per id, the time of the last markSeen on tracker (0: never)
  tEvicted,       \* ids removed from tracker for capacity since their last mark
  tLast,          \* the last call made on tracker and what it returned
  tOps,           \* number of calls made on tracker
  activeClients,  \* the registry: account id -> client handle (NoClient: none)
  call,           \* per startAccount call: ctx.account and the call's position
  agent,          \* per client: state of the transport's Agent
  stopPc,         \* per client: position of the gateway's stop closure
  seen,           \* per client: the seen map of its seenTracker
  markedAt,       \* per client and id: time the id was last marked (0: never)
  evicted,        \* per client: ids evicted for capacity since their last mark
  pipes,          \* the text-handler invocations that passed the dedup check
  nEvents,        \* number of text events delivered so far
  lastEvent,      \* the last text event and how its handler left it
  timers,         \* the reaction timers that were set and have not finished
  lastError,      \* the last onError call: the client and the context tag
  failed,         \* per client: ids whose handling ended in a failure
  send,           \* the last sendText call and its outcome
  nSends,         \* number of sendText calls so far
  resolved        \* the last resolveXmtpAccount call: its inputs and result

trackerVars == <<tracker, tMarkedAt, tEvicted, tLast, tOps>>
lifeVars == <<activeClients, call, agent, stopPc>>
dedupVars == <<seen, markedAt, evicted>>
eventVars == <<pipes, nEvents, lastEvent, timers, lastError, failed>>
sendVars == <<send, nSends>>

vars ==
  <<now, resolved, trackerVars, lifeVars, dedupVars, eventVars, sendVars>>

NoCall == [op |-> "none", id |-> "", result |-> FALSE, at |-> 0]
Unused == [acct |-> "", configured |-> FALSE, dmPolicy |-> "",
           pc |-> "unused", address |-> NoAddress, error |-> ""]
NoEvent == "none"
NoError == [client |-> NoClient, context |-> "none"]
NoResolve == [called |-> FALSE]
NoRet == [channel |-> "", to |-> << >>]
NoSend == [via |-> NoClient, sentTo |-> << >>, state |-> "none",
           error |-> << >>, ret |-> NoRet]

Init ==
  /\ now = 1
  /\ tracker = EmptyMap
  /\ tMarkedAt = [id \in MsgIds |-> 0]
  /\ tEvicted = {}
  /\ tLast = NoCall
  /\ tOps = 0
  /\ activeClients = [a \in AccountIds |-> NoClient]
  /\ call = [c \in Clients |-> Unused]
  /\ agent = [c \in Clients |-> "none"]
  /\ stopPc = [c \in Clients |-> "idle"]
  /\ seen = [c \in Clients |-> EmptyMap]
  /\ markedAt = [c \in Clients |-> [id \in MsgIds |-> 0]]
  /\ evicted = [c \in Clients |-> {}]
  /\ pipes = EmptyBag
  /\ nEvents = 0
  /\ lastEvent = NoEvent
  /\ timers = EmptyBag
  /\ lastError = NoError
  /\ failed = [c \in Clients |-> {}]
  /\ send = NoSend
  /\ nSends = 0
  /\ resolved = NoResolve

\* Time passes (Date.now() is non-decreasing).
Tick ==
  /\ now < MaxNow
  /\ now' = now + 1

\* ------------------------------------------------ direct calls on a tracker
TrackerHasSeen(id) ==
  /\ tOps < MaxOps
  /\ tracker' = HasSeenStore(tracker, id, now)
  /\ tLast' = [op |-> "hasSeen", id |-> id,
               result |-> HasSeenResult(tracker, id, now), at |-> now]
  /\ tOps' = tOps + 1
  /\ UNCHANGED <<now, tMarkedAt, tEvicted>>
  /\ UNCHANGED <<resolved, lifeVars, dedupVars, eventVars, sendVars>>

TrackerMarkSeen(id) ==
  /\ tOps < MaxOps
  /\ tracker' = MarkSeen(tracker, id, now)
  /\ tMarkedAt' = [tMarkedAt EXCEPT ![id] = now]
  /\ tEvicted' = (tEvicted \cup EvictedForCapacity(tracker, id, now)) \ {id}
  /\ tLast' = [op |-> "markSeen", id |-> id, result |-> FALSE, at |-> now]
  /\ tOps' = tOps + 1
  /\ UNCHANGED now
  /\ UNCHANGED <<resolved, lifeVars, dedupVars, eventVars, sendVars>>

TrackerTick ==
  /\ Tick
  /\ UNCHANGED <<resolved, trackerVars, lifeVars, dedupVars, eventVars,
               sendVars>>

NextTracker ==
  \/ \E id \in MsgIds : TrackerHasSeen(id)
  \/ \E id \in MsgIds : TrackerMarkSeen(id)
  \/ TrackerTick

SpecTracker == Init /\ [][NextTracker]_vars

\* ------------------------------------------- gateway.startAccount (channel.ts)
\* The next startAccount call uses the first unused slot.
NextCall(c) ==
  /\ call[c].pc = "unused"
  /\ \A d \in Clients : d < c => call[d].pc # "unused"

\* startAccount without the configured check: every call goes on to
\* Agent.create.
StartAccountUnchecked(c, a, configured) ==
  /\ NextCall(c)
  /\ call' = [call EXCEPT ![c] =
       [acct |-> a, configured |-> configured, dmPolicy |-> DmPolicyCfg,
        pc |-> "creating", address |-> NoAddress, error |-> ""]]
  /\ UNCHANGED <<now, resolved, trackerVars, activeClients, agent, stopPc, dedupVars,
                 eventVars, sendVars>>

\* startAccount up to its first await: the configured check, then
\* startXmtpClient up to `await Agent.create`.
StartAccount(c, a, configured) ==
  /\ NextCall(c)
  /\ call' = [call EXCEPT ![c] =
       [acct |-> a, configured |-> configured, dmPolicy |-> DmPolicyCfg,
        pc |-> IF configured THEN "creating" ELSE "failed",
        address |-> NoAddress,
        error |-> IF configured THEN ""
                  ELSE "XMTP private key not configured"]]
  /\ UNCHANGED <<now, resolved, trackerVars, activeClients, agent, stopPc, dedupVars,
                 eventVars, sendVars>>

\* Agent.create resolves with the tracker kept per account at module level:
\* the client goes on with the tracker of the account's previous client.
AgentCreatedSharedTracker(c) ==
  /\ call[c].pc = "creating"
  /\ agent' = [agent EXCEPT ![c] = "created"]
  /\ seen' = [seen EXCEPT ![c] =
       IF \E d \in Clients : d < c /\ call[d].acct = call[c].acct
       THEN seen[CHOOSE d \in Clients :
                   d < c /\ call[d].acct = call[c].acct]
       ELSE EmptyMap]
  /\ call' = [call EXCEPT ![c].pc = "starting"]
  /\ UNCHANGED <<now, resolved, trackerVars, activeClients, stopPc, markedAt,
                 evicted, eventVars, sendVars>>

\* Agent.create resolves: the tracker is created, the handlers are
\* registered, and agent.start() is awaited.
AgentCreated(c) ==
  /\ call[c].pc = "creating"
  /\ agent' = [agent EXCEPT ![c] = "created"]
  /\ seen' = [seen EXCEPT ![c] = EmptyMap]
  /\ call' = [call EXCEPT ![c].pc = "starting"]
  /\ UNCHANGED <<now, resolved, trackerVars, activeClients, stopPc, markedAt, evicted,
                 eventVars, sendVars>>

\* Agent.create rejects: startXmtpClient and startAccount reject with it.
AgentCreateFailed(c) ==
  /\ call[c].pc = "creating"
  /\ call' = [call EXCEPT ![c].pc = "failed",
                          ![c].error = "transport create failed"]
  /\ UNCHANGED <<now, resolved, trackerVars, activeClients, agent, stopPc, dedupVars,
                 eventVars, sendVars>>

\* agent.start() has opened the transport's streams and its promise is still
\* pending: the agent emits events to the handlers registered before the
\* call (the "start" event that calls onStart, text events), while
\* startXmtpClient is suspended at `await agent.start()`.
AgentListening(c) ==
  /\ call[c].pc = "starting"
  /\ agent[c] = "created"
  /\ agent' = [agent EXCEPT ![c] = "running"]
  /\ UNCHANGED <<now, resolved, trackerVars, activeClients, call, stopPc,
                 dedupVars, eventVars, sendVars>>

\* agent.start() resolves: the agent runs and startXmtpClient returns the
\* handle to startAccount's await.
AgentStarted(c) ==
  /\ call[c].pc = "starting"
  /\ agent' = [agent EXCEPT ![c] = "running"]
  /\ call' = [call EXCEPT ![c].pc = "started"]
  /\ UNCHANGED <<now, resolved, trackerVars, activeClients, stopPc, dedupVars,
                 eventVars, sendVars>>

\* agent.start() rejects after the handle was already put in the registry.
AgentStartFailedRegistered(c) ==
  /\ call[c].pc = "starting"
  /\ call' = [call EXCEPT ![c].pc = "failed",
                          ![c].error = "transport start failed"]
  /\ activeClients' = [activeClients EXCEPT ![call[c].acct] = c]
  /\ UNCHANGED <<now, resolved, trackerVars, agent, stopPc, dedupVars, eventVars,
                 sendVars>>

\* agent.start() rejects: startXmtpClient and startAccount reject with it.
AgentStartFailed(c) ==
  /\ call[c].pc = "starting"
  /\ call' = [call EXCEPT ![c].pc = "failed",
                          ![c].error = "transport start failed"]
  /\ UNCHANGED <<now, resolved, trackerVars, activeClients, agent, stopPc, dedupVars,
                 eventVars, sendVars>>

\* activeClients.set(account.accountId, client).
RegistrySet(reg, a, c) == [reg EXCEPT ![a] = c]

\* startAccount after `await startXmtpClient`: the address is stored on the
\* descriptor, the handle is registered, the stop closure is returned.
Register(c) ==
  /\ call[c].pc = "started"
  /\ call' = [call EXCEPT ![c].pc = "ready",
                          ![c].address = AddressOf(call[c].acct)]
  /\ activeClients' = RegistrySet(activeClients, call[c].acct, c)
  /\ UNCHANGED <<now, resolved, trackerVars, agent, stopPc, dedupVars, eventVars,
                 sendVars>>

\* The whole registry emptied (activeClients.clear()) instead of one key.
RegistryClear(reg, a) == [b \in AccountIds |-> NoClient]

\* activeClients.delete(account.accountId).
RegistryDelete(reg, a) == [reg EXCEPT ![a] = NoClient]

\* The stop closure is called: client.stop() calls agent.stop() and awaits.
StopCall(c) ==
  /\ call[c].pc = "ready"
  /\ stopPc[c] = "idle"
  /\ stopPc' = [stopPc EXCEPT ![c] = "stopping"]
  /\ UNCHANGED <<now, resolved, trackerVars, activeClients, call, agent, dedupVars,
                 eventVars, sendVars>>

\* agent.stop() resolves: the agent is stopped (its stop event fires, onStop
\* logs); the closure's continuation is pending.
StopResolved(c) ==
  /\ stopPc[c] = "stopping"
  /\ agent' = [agent EXCEPT ![c] = "stopped"]
  /\ stopPc' = [stopPc EXCEPT ![c] = "deleting"]
  /\ UNCHANGED <<now, resolved, trackerVars, activeClients, call, dedupVars, eventVars,
                 sendVars>>

\* agent.stop() rejects: the closure rejects before the delete.
StopRejected(c) ==
  /\ stopPc[c] = "stopping"
  /\ stopPc' = [stopPc EXCEPT ![c] = "failed"]
  /\ UNCHANGED <<now, resolved, trackerVars, activeClients, call, agent, dedupVars,
                 eventVars, sendVars>>

\* The closure after `await client.stop()`: the registry entry of the
\* account id is deleted.
StopFinish(c) ==
  /\ stopPc[c] = "deleting"
  /\ activeClients' = RegistryDelete(activeClients, call[c].acct)
  /\ stopPc' = [stopPc EXCEPT ![c] = "done"]
  /\ UNCHANGED <<now, resolved, trackerVars, call, agent, dedupVars, eventVars,
                 sendVars>>

\* The transport shuts the agent down by itself: the stop event fires and
\* onStop logs.
TransportStop(c) ==
  /\ agent[c] = "running"
  /\ agent' = [agent EXCEPT ![c] = "stopped"]
  /\ UNCHANGED <<now, resolved, trackerVars, activeClients, call, stopPc, dedupVars,
                 eventVars, sendVars>>

\* ------------------------------- agent.on("text") handler (xmtp-client.ts)
\* filter.fromSelf: the message was written by the client's own account.
FromSelf(c, id) == SenderOf(id) = AddressOf(call[c].acct)

\* The handler's dedup test on the client's tracker.
Duplicate(c, id) == HasSeenResult(seen[c], id, now)

\* The tracker after a handler that tests hasSeen but never calls markSeen.
SeenAfterEventNoMark(c, id) == HasSeenStore(seen[c], id, now)

\* The tracker after the handler's hasSeen / markSeen.
SeenAfterEvent(c, id) ==
  IF Duplicate(c, id) THEN HasSeenStore(seen[c], id, now)
  ELSE MarkSeen(HasSeenStore(seen[c], id, now), id, now)

\* The invocation that goes on to `await ctx.getSenderAddress()`.
NewPipe(c, id) ==
  [client |-> c, id |-> id, pc |-> "sender", handed |-> 0, replies |-> 0,
   sending |-> {}, sent |-> << >>]

\* A text event reaches the handler of a running agent; the handler runs to
\* its first await (or returns).
TextEvent(c, id) ==
  /\ agent[c] = "running"
  /\ nEvents' = nEvents + 1
  /\ IF FromSelf(c, id)
     THEN /\ lastEvent' = "self"
          /\ UNCHANGED <<dedupVars, pipes>>
     ELSE /\ seen' = [seen EXCEPT ![c] = SeenAfterEvent(c, id)]
          /\ IF Duplicate(c, id)
             THEN /\ lastEvent' = "duplicate"
                  /\ UNCHANGED <<markedAt, evicted, pipes>>
             ELSE /\ lastEvent' = "accepted"
                  /\ markedAt' = [markedAt EXCEPT ![c][id] = now]
                  /\ evicted' = [evicted EXCEPT ![c] =
                       (@ \cup EvictedForCapacity(
                                 HasSeenStore(seen[c], id, now), id, now))
                         \ {id}]
                  /\ pipes' = pipes (+) SetToBag({NewPipe(c, id)})
  /\ UNCHANGED <<now, resolved, trackerVars, lifeVars, sendVars, timers,
                 lastError, failed>>

\* Positions at which an invocation has ended.
EndPcs == {"done", "failed", "rejected"}

\* The in-flight invocations with p replaced by q.
Replace(ps, p, q) == (ps (-) SetToBag({p})) (+) SetToBag({q})

\* The onError callback is called with a context tag.
OnError(c, context) == [client |-> c, context |-> context]

\* One invocation moves from pc `from` to pc `to`; an invocation that has
\* ended leaves the in-flight invocations. An end in "failed" is the
\* handler's catch calling onError(error, "message-handler"); an end in
\* "rejected" is the handler's promise rejecting.
PipeStep(p, from, to) ==
  /\ BagIn(p, pipes)
  /\ p.pc = from
  /\ pipes' = IF to \in EndPcs
              THEN pipes (-) SetToBag({p})
              ELSE Replace(pipes, p, [p EXCEPT !.pc = to])
  /\ lastError' = IF to = "failed"
                  THEN OnError(p.client, "message-handler") ELSE lastError
  /\ failed' = IF to \in {"failed", "rejected"}
               THEN [failed EXCEPT ![p.client] = @ \cup {p.id}] ELSE failed
  /\ UNCHANGED <<now, resolved, trackerVars, lifeVars, dedupVars, nEvents,
                 lastEvent, timers, sendVars>>

\* The reaction timer set by setTimeout(..., 1000).
NewTimer(p) == [client |-> p.client, id |-> p.id, pc |-> "scheduled"]

\* getSenderAddress resolves: the reaction timer is set and onMessage is
\* called; onMessage builds route and envelope and awaits
\* recordInboundSession.
SenderResolved(p) ==
  /\ BagIn(p, pipes)
  /\ p.pc = "sender"
  /\ pipes' = Replace(pipes, p, [p EXCEPT !.pc = "record"])
  /\ timers' = timers (+) SetToBag({NewTimer(p)})
  /\ UNCHANGED <<now, resolved, trackerVars, lifeVars, dedupVars, nEvents,
                 lastEvent, lastError, failed, sendVars>>

\* The target identifier of the envelope onMessage builds for client c, as
\* the template `xmtp:${account.address}` gives it: an unset address is
\* formatted as "undefined".
EnvelopeTo(c) ==
  <<"xmtp:">> \o (IF call[c].address = NoAddress THEN <<"undefined">>
                  ELSE call[c].address)

\* getSenderAddress rejects and the handler takes the id out of the tracker
\* again, so that the message can be retried.
SenderRejectedUnmarks(p) ==
  /\ BagIn(p, pipes)
  /\ p.pc = "sender"
  /\ pipes' = pipes (-) SetToBag({p})
  /\ failed' = [failed EXCEPT ![p.client] = @ \cup {p.id}]
  /\ seen' = [seen EXCEPT ![p.client] = MapDelete(@, p.id)]
  /\ UNCHANGED <<now, resolved, trackerVars, lifeVars, markedAt, evicted,
                 nEvents, lastEvent, timers, lastError, sendVars>>

\* getSenderAddress rejects: the handler rejects, onMessage is not called.
SenderRejected(p) == PipeStep(p, "sender", "rejected")

\* recordInboundSession resolves: onMessage awaits the dispatcher.
SessionRecorded(p) == PipeStep(p, "record", "dispatch")

\* recordInboundSession rejects and the handler has no try/catch: the
\* handler's promise rejects and onError is not called.
SessionRecordFailedUncaught(p) == PipeStep(p, "record", "rejected")

\* recordInboundSession rejects: onMessage rejects, the handler catches it
\* and calls onError(error, "message-handler").
SessionRecordFailed(p) == PipeStep(p, "record", "failed")

\* deliver returns without awaiting reply.
DeliverReturnedEarly(p) == TRUE

\* The promise of the previous deliver call has resolved, so the dispatcher
\* hands over the next fragment: deliver awaits reply, and reply awaits
\* ctx.sendTextReply.
DeliverReturned(p) == p.sending = {}

\* The dispatcher hands a fragment to deliver: a non-empty text is sent with
\* reply (ctx.sendTextReply is called), an empty one is skipped.
Deliver(p, text) ==
  /\ BagIn(p, pipes)
  /\ p.pc = "dispatch"
  /\ DeliverReturned(p)
  /\ pipes' = Replace(pipes, p,
                [p EXCEPT !.handed = @ + 1,
                          !.sending = IF text # "" THEN @ \cup {p.handed + 1}
                                      ELSE @])
  /\ UNCHANGED <<now, resolved, trackerVars, lifeVars, dedupVars, nEvents,
                 lastEvent, timers, lastError, failed, sendVars>>

\* ctx.sendTextReply resolves for fragment i: reply and deliver return.
ReplySent(p, i) ==
  /\ BagIn(p, pipes)
  /\ p.pc = "dispatch"
  /\ i \in p.sending
  /\ pipes' = Replace(pipes, p,
                [p EXCEPT !.sending = @ \ {i},
                          !.sent = Append(@, i),
                          !.replies = @ + 1])
  /\ UNCHANGED <<now, resolved, trackerVars, lifeVars, dedupVars, nEvents,
                 lastEvent, timers, lastError, failed, sendVars>>

\* ctx.sendTextReply rejects for fragment i: deliver rejects into the
\* dispatcher, which goes on (or rejects itself, DispatchFailed).
ReplyFailed(p, i) ==
  /\ BagIn(p, pipes)
  /\ p.pc = "dispatch"
  /\ i \in p.sending
  /\ pipes' = Replace(pipes, p, [p EXCEPT !.sending = @ \ {i}])
  /\ UNCHANGED <<now, resolved, trackerVars, lifeVars, dedupVars, nEvents,
                 lastEvent, timers, lastError, failed, sendVars>>

\* dispatchReplyWithBufferedBlockDispatcher resolves: onMessage returns.
DispatchDone(p) ==
  /\ p.sending = {}
  /\ PipeStep(p, "dispatch", "done")

\* The dispatcher rejects: the handler catches it and calls
\* onError(error, "message-handler").
DispatchFailed(p) == PipeStep(p, "dispatch", "failed")

\* The timer fires: its callback calls ctx.sendReaction and awaits it.
TimerFired(t) ==
  /\ BagIn(t, timers)
  /\ t.pc = "scheduled"
  /\ timers' = (timers (-) SetToBag({t}))
                 (+) SetToBag({[t EXCEPT !.pc = "sending"]})
  /\ UNCHANGED <<now, resolved, trackerVars, lifeVars, dedupVars, pipes,
                 nEvents, lastEvent, lastError, failed, sendVars>>

\* ctx.sendReaction resolves: the callback returns.
ReactionSent(t) ==
  /\ BagIn(t, timers)
  /\ t.pc = "sending"
  /\ timers' = timers (-) SetToBag({t})
  /\ UNCHANGED <<now, resolved, trackerVars, lifeVars, dedupVars, pipes,
                 nEvents, lastEvent, lastError, failed, sendVars>>

\* ctx.sendReaction rejects in a callback without try/catch: the callback's
\* promise rejects, nothing is reported.
ReactionFailedUncaught(t) ==
  /\ BagIn(t, timers)
  /\ t.pc = "sending"
  /\ timers' = timers (-) SetToBag({t})
  /\ lastError' = [client |-> t.client, context |-> "uncaught"]
  /\ UNCHANGED <<now, resolved, trackerVars, lifeVars, dedupVars, pipes,
                 nEvents, lastEvent, failed, sendVars>>

\* ctx.sendReaction rejects: the callback catches it and calls
\* onError(error, "reaction").
ReactionFailed(t) ==
  /\ BagIn(t, timers)
  /\ t.pc = "sending"
  /\ timers' = timers (-) SetToBag({t})
  /\ lastError' = OnError(t.client, "reaction")
  /\ UNCHANGED <<now, resolved, trackerVars, lifeVars, dedupVars, pipes,
                 nEvents, lastEvent, failed, sendVars>>

\* ------------------------------------------- outbound.sendText (channel.ts)
\* `accountId ?? DEFAULT_ACCOUNT_ID`.
AidOf(accountId) ==
  IF accountId = "undefined" THEN DEFAULT_ACCOUNT_ID ELSE accountId

\* The target passed on as given, without normalizeAddress.
SendTargetRaw(to) == to

\* The target sendText hands to client.sendDm and returns.
SendTarget(to) == normalizeAddress(to)

\* sendText up to `await client.sendDm`: the registry lookup, the throw when
\* there is no entry, sendDm called with the normalized target.
SendTextCall(accountId, to) ==
  /\ send.state # "pending"
  /\ nSends' = nSends + 1
  /\ LET aid == AidOf(accountId)
         client == activeClients[aid]
     IN IF client = NoClient
        THEN send' = [via |-> NoClient, sentTo |-> << >>, state |-> "threw",
                      error |-> <<"XMTP client not running for account", aid>>,
                      ret |-> NoRet]
        ELSE send' = [via |-> client, sentTo |-> SendTarget(to),
                      state |-> "pending", error |-> << >>, ret |-> NoRet]
  /\ UNCHANGED <<now, resolved, trackerVars, lifeVars, dedupVars, eventVars>>

\* client.sendDm resolves: sendText returns {channel, to}.
SendTextReturn ==
  /\ send.state = "pending"
  /\ send' = [NoSend EXCEPT !.state = "returned",
                            !.ret = [channel |-> "xmtp", to |-> send.sentTo]]
  /\ UNCHANGED <<now, resolved, trackerVars, lifeVars, dedupVars, eventVars, nSends>>

\* client.sendDm rejects: sendText rejects with the transport's error.
SendTextRejected ==
  /\ send.state = "pending"
  /\ send' = [NoSend EXCEPT !.state = "rejected",
                            !.error = <<"transport send failed">>]
  /\ UNCHANGED <<now, resolved, trackerVars, lifeVars, dedupVars, eventVars, nSends>>

SysTick ==
  /\ Tick
  /\ UNCHANGED <<resolved, trackerVars, lifeVars, dedupVars, eventVars,
               sendVars>>

\* ------------------------------------------- resolveXmtpAccount (types.ts)
\* A missing value (undefined) where a string is expected.
UndefinedStr == <<"undefined">>

\* String.prototype.startsWith / endsWith / slice(from, -1).
startsWith(s, prefix) ==
  Len(s) >= Len(prefix) /\ SubSeq(s, 1, Len(prefix)) = prefix
endsWith(s, suffix) ==
  Len(s) >= Len(suffix) /\ SubSeq(s, Len(s) - Len(suffix) + 1, Len(s)) = suffix
sliceToLast(s, from) == SubSeq(s, from + 1, Len(s) - 1)

\* `value ?? fallback`.
OrElse(value, fallback) == IF value = UndefinedStr THEN fallback ELSE value

\* Private keys as they appear in the configuration or in the environment.
KeyStrings ==
  { << >>,
    <<"0", "x">>,
    <<"0", "x", "a">>,
    <<"0", "x", "a", "0">>,
    <<"0", "x", "F", "a">>,
    <<"0", "x", "a", "0", "a">>,
    <<"0", "x", "Z", "Z">>,
    <<"0", "x", "a", " ">>,
    <<"0", "X", "a", "0">>,
    <<"a", "0", "a", "0">>,
    <<"$", "{", "F", "}">>,
    <<"$", "{", "B", "}">>,
    <<"$", "{", "}", "}">>,
    <<"$", "{", "F">> }
ConfigKeys == KeyStrings \cup {UndefinedStr}

\* Names of environment variables and the environments of the process.
EnvNames == { <<"F">>, <<"B">> }
Environments ==
  [EnvNames -> {UndefinedStr, << >>, <<"0", "x", "a", "0">>,
                <<"0", "x", "Z", "Z">>, <<"0", "x", "a">>,
                <<"$", "{", "B", "}">>}]

\* process.env[name].
EnvGet(env, name) == IF name \in DOMAIN env THEN env[name] ELSE UndefinedStr

\* channels.xmtp.accounts: the accounts in key order, each with its
\* privateKey.
Configs ==
  { << >> } \cup
  { <<[id |-> a, privateKey |-> k]>> : a \in AccountIds, k \in ConfigKeys }
  \cup
  { <<[id |-> "other", privateKey |-> k],
      [id |-> "default", privateKey |-> <<"0", "x", "a", "0">>]>> :
      k \in ConfigKeys }

\* resolveDefaultXmtpAccountId: the first configured account id, or
\* "default".
resolveDefaultXmtpAccountId(accounts) ==
  IF Len(accounts) > 0 THEN accounts[1].id ELSE "default"

\* The private key after the environment substitution.
ResolvePrivateKey(cfgKey, env) ==
  LET privateKey == OrElse(cfgKey, << >>) IN
  IF startsWith(privateKey, <<"$", "{">>) /\ endsWith(privateKey, <<"}">>)
  THEN OrElse(EnvGet(env, sliceToLast(privateKey, 2)), << >>)
  ELSE privateKey

\* `configured`: the key is non-empty, starts with "0x" and has the length.
Configured(privateKey) ==
  /\ privateKey # << >>
  /\ startsWith(privateKey, <<"0", "x">>)
  /\ Len(privateKey) = keyLength

\* resolveXmtpAccount: the descriptor it returns.
resolveXmtpAccount(accounts, accountId, env) ==
  LET aid == IF accountId = "undefined"
             THEN resolveDefaultXmtpAccountId(accounts) ELSE accountId
      found == {i \in 1..Len(accounts) : accounts[i].id = aid}
  IN IF found = {}
     THEN [accountId |-> aid, configured |-> FALSE, privateKey |-> << >>,
           address |-> NoAddress]
     ELSE LET accountConfig == accounts[CHOOSE i \in found : TRUE]
              privateKey == ResolvePrivateKey(accountConfig.privateKey, env)
          IN [accountId |-> aid, configured |-> Configured(privateKey),
              privateKey |-> privateKey, address |-> NoAddress]

\* The host resolves an account descriptor (the function is pure: one call
\* per behaviour covers every input).
Resolve(accounts, accountId, env) ==
  /\ ~resolved.called
  /\ resolved' = [called |-> TRUE, accounts |-> accounts,
                  accountId |-> accountId, env |-> env,
                  account |-> resolveXmtpAccount(accounts, accountId, env)]
  /\ UNCHANGED <<now, trackerVars, lifeVars, dedupVars, eventVars, sendVars>>

NextResolve ==
  \E accounts \in Configs, accountId \in AccountIds \cup {"undefined"},
     env \in Environments : Resolve(accounts, accountId, env)

SpecResolve == Init /\ [][NextResolve]_vars

\* ------------------------------------------------------- specifications
\* The host's calls on the gateway and the transport's answers.
Lifecycle ==
  \/ \E c \in Clients, a \in AccountIds, k \in BOOLEAN : StartAccount(c, a, k)
  \/ \E c \in Clients : AgentCreated(c)
  \/ \E c \in Clients : AgentCreateFailed(c)
  \/ \E c \in Clients : AgentStarted(c)
  \/ \E c \in Clients : AgentStartFailed(c)
  \/ \E c \in Clients : Register(c)
  \/ \E c \in Clients : StopCall(c)
  \/ \E c \in Clients : StopResolved(c)
  \/ \E c \in Clients : StopRejected(c)
  \/ \E c \in Clients : StopFinish(c)
  \/ \E c \in Clients : TransportStop(c)

\* Outbound sends of the host.
Outbound ==
  \/ \E a \in AccountIds \cup {"undefined"}, to \in SendTargets :
       nSends < MaxSends /\ SendTextCall(a, to)
  \/ SendTextReturn
  \/ SendTextRejected

\* The invocations of the text handler after their first await.
Pipelines ==
  \/ \E p \in BagToSet(pipes) : SenderResolved(p)
  \/ \E p \in BagToSet(pipes) : SenderRejected(p)
  \/ \E p \in BagToSet(pipes) : SessionRecorded(p)
  \/ \E p \in BagToSet(pipes) : SessionRecordFailed(p)
  \/ \E p \in BagToSet(pipes), text \in {"", "r"} :
       p.handed < MaxFrags /\ Deliver(p, text)
  \/ \E p \in BagToSet(pipes) : \E i \in p.sending : ReplySent(p, i)
  \/ \E p \in BagToSet(pipes) : \E i \in p.sending : ReplyFailed(p, i)
  \/ \E p \in BagToSet(pipes) : DispatchDone(p)
  \/ \E p \in BagToSet(pipes) : DispatchFailed(p)

\* Lifecycle and outbound sends around the registry.
Next ==
  \/ Lifecycle
  \/ Outbound

Spec == Init /\ [][Next]_vars

\* The host starts an account that it has not started before.
StartOnce(c, a, configured) ==
  /\ \A d \in Clients : call[d].acct # a
  /\ StartAccount(c, a, configured)

\* The transport delivers a text event to a running agent.
Inbound ==
  \E c \in Clients, id \in MsgIds : nEvents < MaxEvents /\ TextEvent(c, id)

\* Every account started at most once; text events and their pipelines.
NextInbound ==
  \/ \E c \in Clients, a \in AccountIds, k \in BOOLEAN : StartOnce(c, a, k)
  \/ \E c \in Clients : AgentCreated(c)
  \/ \E c \in Clients : AgentCreateFailed(c)
  \/ \E c \in Clients : AgentStarted(c)
  \/ \E c \in Clients : AgentStartFailed(c)
  \/ \E c \in Clients : Register(c)
  \/ \E c \in Clients : StopCall(c)
  \/ \E c \in Clients : StopResolved(c)
  \/ \E c \in Clients : StopRejected(c)
  \/ \E c \in Clients : StopFinish(c)
  \/ \E c \in Clients : TransportStop(c)
  \/ Inbound
  \/ Pipelines

SpecInbound == Init /\ [][NextInbound]_vars

\* The host starts one account.
StartFirst(c, a, configured) ==
  /\ \A d \in Clients : call[d].pc = "unused"
  /\ StartAccount(c, a, configured)

\* The transport delivers a text event (first delivery or redelivery).
Delivery ==
  \E c \in Clients, id \in MsgIds :
    nEvents < MaxDeliveries /\ TextEvent(c, id)

\* One account's client over time: deliveries and redeliveries, the clock,
\* and each invocation up to its onMessage call.
NextDedup ==
  \/ \E c \in Clients, a \in AccountIds, k \in BOOLEAN : StartFirst(c, a, k)
  \/ \E c \in Clients : AgentCreated(c)
  \/ \E c \in Clients : AgentCreateFailed(c)
  \/ \E c \in Clients : AgentStarted(c)
  \/ \E c \in Clients : AgentStartFailed(c)
  \/ \E c \in Clients : Register(c)
  \/ \E c \in Clients : StopCall(c)
  \/ \E c \in Clients : StopResolved(c)
  \/ \E c \in Clients : StopRejected(c)
  \/ \E c \in Clients : StopFinish(c)
  \/ \E c \in Clients : TransportStop(c)
  \/ Delivery
  \/ \E p \in BagToSet(pipes) : SenderResolved(p)
  \/ SysTick

SpecDedup == Init /\ [][NextDedup]_vars

\* A started account's client over time, never stopped: deliveries and
\* redeliveries, the clock, and invocations that fail at the sender
\* resolution or inside onMessage.
NextRedelivery ==
  \/ \E c \in Clients, a \in AccountIds, k \in BOOLEAN : StartFirst(c, a, k)
  \/ \E c \in Clients : AgentCreated(c)
  \/ \E c \in Clients : AgentCreateFailed(c)
  \/ \E c \in Clients : AgentStarted(c)
  \/ \E c \in Clients : AgentStartFailed(c)
  \/ \E c \in Clients : Register(c)
  \/ Delivery
  \/ \E p \in BagToSet(pipes) : SenderResolved(p)
  \/ \E p \in BagToSet(pipes) : SenderRejected(p)
  \/ \E p \in BagToSet(pipes) : SessionRecordFailed(p)
  \/ SysTick

SpecRedelivery == Init /\ [][NextRedelivery]_vars

\* The transport delivers a text event to a running client, before or after
\* a restart of its account.
RestartEvent ==
  \E c \in Clients, id \in MsgIds :
    nEvents < MaxRestartEvents /\ TextEvent(c, id)

\* The host starts an account once every earlier start has failed or its
\* client has been stopped.
StartAfterStop(c, a, configured) ==
  /\ \A d \in Clients :
       d < c => (call[d].pc = "failed" \/ stopPc[d] = "done")
  /\ StartAccount(c, a, configured)

\* Accounts started, stopped and started again, with text events reaching
\* the handlers of their clients.
NextRestart ==
  \/ \E c \in Clients, a \in AccountIds, k \in BOOLEAN :
       StartAfterStop(c, a, k)
  \/ \E c \in Clients : AgentCreated(c)
  \/ \E c \in Clients : AgentCreateFailed(c)
  \/ \E c \in Clients : AgentStarted(c)
  \/ \E c \in Clients : AgentStartFailed(c)
  \/ \E c \in Clients : Register(c)
  \/ \E c \in Clients : StopCall(c)
  \/ \E c \in Clients : StopResolved(c)
  \/ \E c \in Clients : StopRejected(c)
  \/ \E c \in Clients : StopFinish(c)
  \/ \E c \in Clients : TransportStop(c)
  \/ RestartEvent

SpecRestart == Init /\ [][NextRestart]_vars

\* The host starts one account, the transport answers, the host stops it.
OneAccount ==
  \/ \E c \in Clients, a \in AccountIds, k \in BOOLEAN : StartFirst(c, a, k)
  \/ \E c \in Clients : AgentCreated(c)
  \/ \E c \in Clients : AgentCreateFailed(c)
  \/ \E c \in Clients : AgentStarted(c)
  \/ \E c \in Clients : AgentStartFailed(c)
  \/ \E c \in Clients : Register(c)
  \/ \E c \in Clients : StopCall(c)
  \/ \E c \in Clients : StopResolved(c)
  \/ \E c \in Clients : StopRejected(c)
  \/ \E c \in Clients : StopFinish(c)
  \/ \E c \in Clients : TransportStop(c)

\* The transport delivers a text event to the started client.
Message ==
  \E c \in Clients, id \in MsgIds :
    nEvents < MaxMessages /\ TextEvent(c, id)

\* The callbacks of the reaction timers.
Reactions ==
  \/ \E t \in BagToSet(timers) : TimerFired(t)
  \/ \E t \in BagToSet(timers) : ReactionSent(t)
  \/ \E t \in BagToSet(timers) : ReactionFailed(t)

\* One account's client, the handling of its messages and their reaction
\* timers, with the account being stopped at any moment; the dispatcher
\* resolves or rejects without handing over a fragment.
NextMessage ==
  \/ OneAccount
  \/ Message
  \/ \E p \in BagToSet(pipes) : SenderResolved(p)
  \/ \E p \in BagToSet(pipes) : SenderRejected(p)
  \/ \E p \in BagToSet(pipes) : SessionRecorded(p)
  \/ \E p \in BagToSet(pipes) : SessionRecordFailed(p)
  \/ \E p \in BagToSet(pipes) : DispatchDone(p)
  \/ \E p \in BagToSet(pipes) : DispatchFailed(p)
  \/ Reactions

SpecMessage == Init /\ [][NextMessage]_vars

\* One account's client and the replies to a message: the dispatcher hands
\* fragments to deliver, the transport completes or fails each send.
NextReply ==
  \/ OneAccount
  \/ Inbound
  \/ \E p \in BagToSet(pipes) : SenderResolved(p)
  \/ \E p \in BagToSet(pipes) : SenderRejected(p)
  \/ \E p \in BagToSet(pipes) : SessionRecorded(p)
  \/ \E p \in BagToSet(pipes) : SessionRecordFailed(p)
  \/ \E p \in BagToSet(pipes), text \in {"", "r"} :
       p.handed < MaxReplyFrags /\ Deliver(p, text)
  \/ \E p \in BagToSet(pipes) : \E i \in p.sending : ReplySent(p, i)
  \/ \E p \in BagToSet(pipes) : \E i \in p.sending : ReplyFailed(p, i)
  \/ \E p \in BagToSet(pipes) : DispatchDone(p)
  \/ \E p \in BagToSet(pipes) : DispatchFailed(p)

SpecReply == Init /\ [][NextReply]_vars

\* The transport delivers a text event to an agent that emits events.
StartEvent ==
  \E c \in Clients, id \in MsgIds :
    nEvents < MaxStartEvents /\ TextEvent(c, id)

\* One account being started: the agent emits events from the moment
\* agent.start() has opened its streams, and the invocations of the handler
\* run beside the continuations of startXmtpClient and startAccount.
NextStartWindow ==
  \/ \E c \in Clients, a \in AccountIds, k \in BOOLEAN : StartFirst(c, a, k)
  \/ \E c \in Clients : AgentCreated(c)
  \/ \E c \in Clients : AgentCreateFailed(c)
  \/ \E c \in Clients : AgentListening(c)
  \/ \E c \in Clients : AgentStarted(c)
  \/ \E c \in Clients : Register(c)
  \/ StartEvent
  \/ \E p \in BagToSet(pipes) : SenderResolved(p)
  \/ \E p \in BagToSet(pipes) : SenderRejected(p)
  \/ \E p \in BagToSet(pipes) : SessionRecorded(p)
  \/ \E p \in BagToSet(pipes) : SessionRecordFailed(p)

SpecStartWindow == Init /\ [][NextStartWindow]_vars

\* ---------------------------------------------------------------- C9, C10
\* C9: after any sequence of markSeen and hasSeen calls on one tracker, over
\* any ids (the empty string included) and any non-decreasing clock values,
\* the number of stored entries never exceeds the capacity bound.
C9_SizeBounded == Len(tracker) <= maxSize

\* C10: hasSeen(m) returns true when m was last marked at most ttlMs ago and
\* has not been evicted for capacity since; it returns false once the window
\* has elapsed, and false for an id that was never marked.
C10_HasSeenWindow ==
  tLast.op = "hasSeen" =>
    LET t == tMarkedAt[tLast.id] IN
    /\ (t # 0 /\ tLast.at - t <= ttlMs /\ tLast.id \notin tEvicted)
         => tLast.result = TRUE
    /\ (t # 0 /\ tLast.at - t > ttlMs) => tLast.result = FALSE
    /\ t = 0 => tLast.result = FALSE

\* C10 witness: hasSeen answered true at the last instant of the window, for
\* an id marked earlier.
C10_Witness ==
  /\ tLast.op = "hasSeen"
  /\ tLast.result = TRUE
  /\ tMarkedAt[tLast.id] # 0
  /\ tLast.at - tMarkedAt[tLast.id] = ttlMs

\* -------------------------------------------------------------- C3, C4
\* A handle returned by startAccount whose agent has not stopped.
Live(c) == call[c].pc = "ready" /\ agent[c] = "running"

\* C3: at most one live (started, not stopped) client handle exists per
\* accountId at any time, and a registry lookup returns no handle other than
\* the single live one.
C3_SingleLiveClient ==
  \A c, d \in Clients :
    (Live(c) /\ Live(d) /\ call[c].acct = call[d].acct) => c = d

\* C4: whenever a client has stopped (by a stop call or by the transport's
\* stop event), the registry holds no entry for it: a lookup returns nothing
\* or a handle whose client is still running.
C4_RegistryOnlyRunning ==
  \A a \in AccountIds :
    activeClients[a] # NoClient => agent[activeClients[a]] = "running"

\* ------------------------------------------------------------------ C5
\* The normalized form of each target, written out.
C5_Normal(to) ==
  CASE to = <<" ", "0", "x", "A", " ">> -> <<"0", "x", "a">>
    [] to = <<"0", "x", "b">> -> <<"0", "x", "b">>

\* C5: sendText for an account without registry entry throws an error that
\* names the account, calls sendDm on no client and leaves the registry
\* unchanged; with an entry it calls sendDm on that entry's client with the
\* normalized address, and what it returns is {channel: "xmtp", to: the
\* normalized address}.
C5_SendText ==
  [][ /\ \A accountId \in AccountIds \cup {"undefined"}, to \in SendTargets :
           SendTextCall(accountId, to) =>
             LET aid == IF accountId = "undefined" THEN "default"
                        ELSE accountId
             IN /\ activeClients' = activeClients
                /\ IF activeClients[aid] = NoClient
                   THEN /\ send'.state = "threw"
                        /\ send'.error[2] = aid
                        /\ send'.via = NoClient
                   ELSE /\ send'.state = "pending"
                        /\ send'.via = activeClients[aid]
                        /\ send'.sentTo = C5_Normal(to)
      /\ SendTextReturn =>
           /\ send'.ret = [channel |-> "xmtp", to |-> send.sentTo]
           /\ send.sentTo \in {C5_Normal(to) : to \in SendTargets}
           /\ activeClients' = activeClients
    ]_vars

\* C5 witness: sendText threw for the default account after that account's
\* client was started and stopped again, while another account is registered.
C5_Witness ==
  /\ send.state = "threw"
  /\ send.error = <<"XMTP client not running for account", "default">>
  /\ activeClients["default"] = NoClient
  /\ activeClients["other"] # NoClient
  /\ \E c \in Clients : call[c].acct = "default" /\ stopPc[c] = "done"

\* ------------------------------------------------------------------ C7
\* C7: startAccount on a descriptor with configured = false fails with an
\* error before any transport connection is created or started, and the
\* account is never added to the registry by that call.
C7_UnconfiguredFailsFast ==
  [][ /\ \A c \in Clients, a \in AccountIds :
           StartAccount(c, a, FALSE) =>
             /\ call'[c].pc = "failed"
             /\ call'[c].error = "XMTP private key not configured"
             /\ agent' = agent
             /\ activeClients' = activeClients
      /\ \A c \in Clients :
           (call[c].pc # "unused" /\ ~call[c].configured) =>
             /\ call'[c] = call[c]
             /\ agent'[c] = "none"
             /\ \A a \in AccountIds : activeClients'[a] # c
    ]_vars

\* C7 witness: an unconfigured start has failed while another account is
\* registered and running.
C7_Witness ==
  \E c, d \in Clients :
    /\ call[c].pc = "failed" /\ ~call[c].configured
    /\ agent[c] = "none"
    /\ Live(d)
    /\ activeClients[call[d].acct] = d

\* ------------------------------------------------------------------ C8
\* C8: when transport creation or transport start fails during startAccount,
\* the failure is propagated to the caller, no registry entry is created for
\* the call, the descriptor's address stays unset, and nothing is retried.
C8_ConnectFailureFatal ==
  [][ /\ \A c \in Clients :
           (AgentCreateFailed(c) \/ AgentStartFailed(c)) =>
             /\ call'[c].pc = "failed"
             /\ call'[c].error \in
                  {"transport create failed", "transport start failed"}
             /\ call'[c].address = NoAddress
             /\ activeClients' = activeClients
      /\ \A c \in Clients :
           call[c].pc = "failed" =>
             /\ call'[c] = call[c]
             /\ call[c].address = NoAddress
             /\ agent'[c] = agent[c]
             /\ agent[c] # "running"
             /\ \A a \in AccountIds : activeClients'[a] # c
    ]_vars

\* C8 witness: a start failed at agent.start() after its agent was created,
\* while the same account id has a registered client from another call.
C8_Witness ==
  \E c, d \in Clients :
    /\ call[c].pc = "failed"
    /\ call[c].error = "transport start failed"
    /\ agent[c] = "created"
    /\ Live(d)
    /\ call[d].acct = call[c].acct
    /\ activeClients[call[d].acct] = d

\* ------------------------------------------------------------------ C1
\* Message id was accepted by client c before and the retention window of
\* that delivery has not elapsed.
C1_SeenInWindow(c, id) ==
  markedAt[c][id] # 0 /\ now - markedAt[c][id] <= ttlMs

\* The handler returned at the dedup test: no invocation was added, so
\* onMessage is not called and no reply is sent for this delivery.
C1_Dropped ==
  /\ lastEvent' = "duplicate"
  /\ pipes' = pipes

\* C1 (as stated): when a text event with the same message id is delivered
\* to a client a second time within the retention window, the second
\* delivery returns without calling onMessage and without sending a reply.
C1_SecondDeliveryDropped ==
  [][ \A c \in Clients, id \in MsgIds :
        (C1_SeenInWindow(c, id) /\ TextEvent(c, id)) => C1_Dropped ]_vars

\* C1 (amended): the same, provided the id has not been evicted from the
\* tracker for capacity since it was accepted.
C1_SecondDeliveryDroppedUnlessEvicted ==
  [][ \A c \in Clients, id \in MsgIds :
        (C1_SeenInWindow(c, id) /\ id \notin evicted[c] /\ TextEvent(c, id))
          => C1_Dropped ]_vars

\* C1 witness: two deliveries so far; the second was dropped as a duplicate
\* while the invocation of the first is still awaiting the sender address.
C1_Witness ==
  /\ nEvents = 2
  /\ lastEvent = "duplicate"
  /\ BagCardinality(pipes) = 1
  /\ \E p \in BagToSet(pipes) : p.pc = "sender"

\* ------------------------------------------------------------------ C2
\* The access decision of the policy for the sender of message id at
\* client c: denied under `disabled`, and under `allowlist` when allowFrom
\* holds neither the normalized sender nor "*".
C2_Denied(c, id) ==
  LET allow == {AllowFromCfg[i] : i \in 1..Len(AllowFromCfg)} IN
  \/ call[c].dmPolicy = "disabled"
  \/ /\ call[c].dmPolicy = "allowlist"
     /\ normalizeAddress(SenderOf(id)) \notin
          {normalizeAddress(e) : e \in allow}
     /\ <<"*">> \notin allow

\* C2: a message whose sender the DM policy denies never reaches session
\* recording, never reaches agent dispatch and produces no reply.
C2_PolicyBeforeDispatch ==
  \A p \in BagToSet(pipes) :
    C2_Denied(p.client, p.id) =>
      /\ p.pc \notin {"record", "dispatch"}
      /\ p.replies = 0

\* ------------------------------------------------------------------ C6
\* The in-flight invocations of client d.
C6_PipesOf(ps, d) ==
  [p \in {q \in BagToSet(ps) : q.client = d} |-> CopiesIn(p, ps)]

\* A step of the stop closure of client c.
C6_StopStep(c) ==
  StopCall(c) \/ StopResolved(c) \/ StopRejected(c) \/ StopFinish(c)

\* C6: two started accounts with distinct ids have two separate registry
\* entries, and stopping one leaves the other's registry entry, running
\* client, dedup tracker and in-flight pipelines unchanged.
C6_StopLeavesOtherAccount ==
  [][ /\ \A c, d \in Clients :
           ( /\ call[c].pc = "ready" /\ stopPc[c] = "idle"
             /\ call[d].pc = "ready" /\ stopPc[d] = "idle"
             /\ call[c].acct # call[d].acct ) =>
             /\ activeClients[call[c].acct] = c
             /\ activeClients[call[d].acct] = d
      /\ \A c, d \in Clients :
           ( /\ stopPc'[c] # stopPc[c]
             /\ call[d].pc # "unused"
             /\ call[d].acct # call[c].acct
             /\ C6_StopStep(c) ) =>
             /\ activeClients'[call[d].acct] = activeClients[call[d].acct]
             /\ agent'[d] = agent[d]
             /\ call'[d] = call[d]
             /\ seen'[d] = seen[d]
             /\ C6_PipesOf(pipes', d) = C6_PipesOf(pipes, d)
    ]_vars

\* C6 witness: one account's stop has completed while the other account is
\* registered and running with a non-empty tracker and a message in flight.
C6_Witness ==
  \E c, d \in Clients :
    /\ call[c].pc = "ready" /\ stopPc[c] = "done"
    /\ Live(d)
    /\ call[d].acct # call[c].acct
    /\ activeClients[call[d].acct] = d
    /\ seen[d] # EmptyMap
    /\ C6_PipesOf(pipes, d) # EmptyBag

\* ------------------------------------------------------------------ C11
\* C11: the descriptor's address is unset before a start, written once per
\* successful start, and cleared again when that client stops: in every
\* state where the account's client is stopped the address is unset.
C11_AddressClearedOnStop ==
  \A c \in Clients :
    (call[c].pc = "ready" /\ stopPc[c] = "done") =>
      call[c].address = NoAddress

\* ------------------------------------------------------------------ C12
\* Hexadecimal characters.
C12_Hex ==
  {"0", "1", "2", "3", "4", "5", "6", "7", "8", "9",
   "a", "b", "c", "d", "e", "f", "A", "B", "C", "D", "E", "F"}

\* A key of the exact shape: "0x" followed by hexadecimal characters up to
\* the key length.
C12_WellFormed(k) ==
  /\ Len(k) = keyLength
  /\ k[1] = "0" /\ k[2] = "x"
  /\ \A i \in 3..Len(k) : k[i] \in C12_Hex

\* C12: resolve returns configured = true only if the resolved private key
\* (after the environment substitution) is exactly "0x" followed by
\* hexadecimal characters of the required number; a ${F} key with F unset
\* gives configured = false and with F set to a well-formed key gives
\* configured = true.
C12_ConfiguredOnlyIfWellFormed ==
  resolved.called =>
    /\ resolved.account.configured =>
         C12_WellFormed(resolved.account.privateKey)
    /\ \A i \in 1..Len(resolved.accounts) :
         ( /\ resolved.accounts[i].id = resolved.account.accountId
           /\ resolved.accounts[i].privateKey = <<"$", "{", "F", "}">> ) =>
           /\ resolved.env[<<"F">>] = UndefinedStr =>
                ~resolved.account.configured
           /\ C12_WellFormed(resolved.env[<<"F">>]) =>
                resolved.account.configured

C14_ErrorsReported ==
  [][ /\ \A p \in BagToSet(pipes) :
           (SessionRecordFailed(p) \/ DispatchFailed(p)) =>
             /\ lastError' = [client |-> p.client,
                              context |-> "message-handler"]
             /\ agent' = agent /\ activeClients' = activeClients
             /\ seen' = seen /\ call' = call
             /\ pipes' = pipes (-) SetToBag({p})
             /\ timers' = timers
      /\ \A t \in BagToSet(timers) :
           ReactionFailed(t) =>
             /\ lastError' = [client |-> t.client, context |-> "reaction"]
             /\ agent' = agent /\ activeClients' = activeClients
             /\ seen' = seen /\ call' = call
             /\ pipes' = pipes
    ]_vars

\* C14 witness: the handling of one message failed and was reported, and a
\* later message with another id has reached the agent dispatch on the same
\* client, which is still running and registered.
C14_Witness ==
  \E c \in Clients :
    /\ failed[c] # {}
    /\ lastError.client = c
    /\ lastError.context \in {"message-handler", "reaction"}
    /\ Live(c) /\ activeClients[call[c].acct] = c
    /\ \E p \in BagToSet(pipes) :
         p.client = c /\ p.id \notin failed[c] /\ p.pc = "dispatch"

\* ------------------------------------------------------------------ C15
\* Client c has been stopped.
C15_Stopped(c) == agent[c] = "stopped"

\* C15: when the account was stopped before the reaction timer fires, the
\* firing and the end of its callback leave the registry and every
\* descriptor as they were and raise no uncaught error: a failed reaction
\* is reported through onError with the tag "reaction".
C15_LateTimerHarmless ==
  [][ \A t \in BagToSet(timers) :
        ( /\ C15_Stopped(t.client)
          /\ (TimerFired(t) \/ ReactionSent(t) \/ ReactionFailed(t)) ) =>
          /\ activeClients' = activeClients
          /\ call' = call /\ agent' = agent /\ stopPc' = stopPc
          /\ lastError' # lastError =>
               lastError' = [client |-> t.client, context |-> "reaction"]
          /\ (ReactionFailed(t)) =>
               lastError' = [client |-> t.client, context |-> "reaction"]
    ]_vars

\* C15 witness: the stop closure of the account has completed, the registry
\* holds no entry for it, and the reaction of a message accepted before the
\* stop has failed and been reported.
C15_Witness ==
  \E c \in Clients :
    /\ stopPc[c] = "done"
    /\ activeClients[call[c].acct] = NoClient
    /\ lastError = [client |-> c, context |-> "reaction"]

\* ------------------------------------------------------------------ C16
\* A step of stopping client c: of the gateway's stop closure, or the
\* transport's own stop.
C16_StopStep(c) == C6_StopStep(c) \/ TransportStop(c)

\* C16: stopping an account's client does not cancel the invocations of
\* that account that have passed the dedup check: the stop steps leave them
\* in flight, each of them ends after the stop only by completing or by a
\* failure reported through onError, and once the stop has completed no text
\* event starts a further invocation for that client.
C16_StopKeepsPipelines ==
  [][ /\ \A c \in Clients : C16_StopStep(c) => pipes' = pipes
      /\ \A p \in BagToSet(pipes) :
           ( /\ agent[p.client] = "stopped"
             /\ pipes' = pipes (-) SetToBag({p}) ) =>
             \/ DispatchDone(p)
             \/ /\ lastError' = [client |-> p.client,
                                 context |-> "message-handler"]
                /\ (SessionRecordFailed(p) \/ DispatchFailed(p))
      /\ \A c \in Clients :
           stopPc[c] = "done" =>
             \A p \in BagToSet(pipes') :
               (p.client = c /\ p.pc = "sender") =>
                 CopiesIn(p, pipes') <= CopiesIn(p, pipes)
    ]_vars

\* ------------------------------------------------------------------ C17
\* The entries of a map that are older than the retention window at time t.
C17_Expired(m, t) == {k \in MapKeys(m) : t - MapGet(m, k) > ttlMs}

\* The keys the claim says markSeen removes from map m at time t: none below
\* capacity; at capacity every expired key and, if the rest is still at
\* capacity, the first remaining key in insertion order.
C17_Removed(m, t) ==
  IF Len(m) < maxSize THEN {}
  ELSE LET rest == SelectSeq(m, LAMBDA e : e.id \notin C17_Expired(m, t)) IN
       IF Len(rest) >= maxSize
       THEN C17_Expired(m, t) \cup {rest[1].id}
       ELSE C17_Expired(m, t)

\* C17: markSeen(id) removes exactly the keys named above, keeps the other
\* entries in their order, and afterwards holds id with the current
\* timestamp.
C17_MarkSeenEviction ==
  [][ \A id \in MsgIds :
        TrackerMarkSeen(id) =>
          /\ SelectSeq(tracker', LAMBDA e : e.id # id) =
               SelectSeq(tracker,
                         LAMBDA e : e.id # id
                                    /\ e.id \notin C17_Removed(tracker, now))
          /\ MapGet(tracker', id) = now
    ]_vars

\* ------------------------------------------------------------------ C18
\* C18: each successful start creates a new, empty tracker that no other
\* client shares: a text event changes the tracker of its own client only,
\* and an id that this client has not accepted is dispatched whatever
\* earlier clients of the account, or clients of other accounts, have seen.
C18_TrackerPerStart ==
  [][ /\ \A c \in Clients :
           AgentCreated(c) =>
             /\ seen'[c] = EmptyMap
             /\ \A d \in Clients \ {c} : seen'[d] = seen[d]
      /\ \A c \in Clients, id \in MsgIds :
           (nEvents' # nEvents /\ TextEvent(c, id)) =>
             /\ \A d \in Clients \ {c} : seen'[d] = seen[d]
             /\ (~FromSelf(c, id) /\ markedAt[c][id] = 0) =>
                  /\ lastEvent' = "accepted"
                  /\ pipes' = pipes (+) SetToBag({NewPipe(c, id)})
    ]_vars

\* C18 witness: an id dispatched by a client that has since been stopped was
\* redelivered to the restarted account's client and dispatched again.
C18_Witness ==
  \E c, d \in Clients, id \in MsgIds :
    /\ c < d /\ call[c].acct = call[d].acct
    /\ stopPc[c] = "done"
    /\ Live(d)
    /\ markedAt[c][id] # 0 /\ markedAt[d][id] # 0
    /\ lastEvent = "accepted"
    /\ BagIn(NewPipe(c, id), pipes) /\ BagIn(NewPipe(d, id), pipes)

\* ------------------------------------------------------------------ C19
\* C19: the stop closure of one handle never removes a registry entry that
\* maps to a different, still-running handle.
C19_StopRemovesOwnHandleOnly ==
  [][ \A c, d \in Clients :
        ( /\ StopFinish(c)
          /\ d # c
          /\ activeClients[call[c].acct] = d
          /\ Live(d) ) =>
          activeClients'[call[c].acct] = d ]_vars

\* ------------------------------------------------------------------ C20
\* A failure step of invocation p: the sender resolution or onMessage fails.
C20_Fails(p) == SenderRejected(p) \/ SessionRecordFailed(p)

\* C20 (as stated): the id is marked seen before sender resolution and
\* dispatch, so when the handling of a message has failed, a redelivery of
\* its id within the retention window is dropped and onMessage is not
\* invoked again.
C20_FailedNotRetried ==
  [][ \A c \in Clients, id \in MsgIds :
        (id \in failed[c] /\ C1_SeenInWindow(c, id) /\ TextEvent(c, id))
          => C1_Dropped ]_vars

\* C20 (amended): an accepted id is in the tracker before the handler's
\* first await, a failure leaves the tracker as it is, and a redelivery of
\* a failed id within the retention window is dropped unless the id has
\* been evicted from the tracker for capacity since.
C20_FailedNotRetriedUnlessEvicted ==
  [][ /\ \A c \in Clients, id \in MsgIds :
           (lastEvent' = "accepted" /\ nEvents' # nEvents /\ TextEvent(c, id))
             => MapGet(seen'[c], id) = now
      /\ seen' # seen => \A p \in BagToSet(pipes) : ~C20_Fails(p)
      /\ \A c \in Clients, id \in MsgIds :
           ( /\ id \in failed[c]
             /\ C1_SeenInWindow(c, id)
             /\ id \notin evicted[c]
             /\ TextEvent(c, id) ) => C1_Dropped
    ]_vars

\* C20 witness: a message was accepted, onMessage failed for it, and its
\* redelivery was dropped as a duplicate.
C20_Witness ==
  /\ nEvents = 2
  /\ lastEvent = "duplicate"
  /\ pipes = EmptyBag
  /\ lastError.context = "message-handler"
  /\ \E c \in Clients : failed[c] # {}

\* C21: whenever the inbound pipeline of an account builds an envelope
\* (getSenderAddress has resolved and onMessage runs up to its first
\* await), the account's address is already set, so that the envelope's
\* To and OriginatingTo are "xmtp:" followed by the address of the started
\* client; no text event is handled between the transport starting to
\* deliver events and startAccount writing account.address.
C21_EnvelopeCarriesAddress ==
  [][\A p \in BagToSet(pipes) :
       (p.pc = "sender" /\ SenderResolved(p)) =>
         EnvelopeTo(p.client) =
           <<"xmtp:">> \o AddressOf(call[p.client].acct)]_vars

====
